---------------------------- MODULE Spec2Model ----------------------------
(***************************************************************************)
(* A model of the sphere ray tracer of src/basic-raytracing/raytracer.js   *)
(* (and of its earlier, unlit version src/unnamed/part_000).               *)
(*                                                                         *)
(* Numbers.  The program computes with JavaScript numbers.  The model      *)
(* computes with exact values:                                             *)
(*   [k |-> "fin", n, d]  the rational n/d, d > 0, in lowest terms         *)
(*   [k |-> "inf", n, d]  +Infinity (n = 1) or -Infinity (n = -1)           *)
(*   [k |-> "nan", ...]   NaN                                              *)
(*   [k |-> "irr", ...]   a finite real that is not rational: the square   *)
(*                        root of a rational that is no perfect square     *)
(* Every specification below draws its inputs from sets on which no        *)
(* comparison ever reads an "irr" value and no result is "irr", so that on *)
(* the inputs explored every number of the model is the real number the    *)
(* program's arithmetic stands for.                                        *)
(***************************************************************************)
EXTENDS Integers, Sequences, FiniteSets, TLC

VARIABLES
    Cw, Ch,            \* canvas width and height
    scene,             \* [spheres: Seq(Sphere), lights: Seq(Light)]
    BACKGROUND_COLOR,  \* the configured background colour
    pc,                \* position of the program / of the call under study
    x, y,              \* render's loop counters (centered coordinates)
    data,              \* imgData.data: index -> stored byte
    writes,            \* history: the stores PutPixel has performed
    skipped,           \* history: the (x, y) PutPixel returned early on
    canvas,            \* what ctx.putImageData has copied to the canvas
    call,              \* arguments of the TraceRay / ComputeLighting call
    ret                \* what that call returned

vars == <<Cw, Ch, scene, BACKGROUND_COLOR, pc, x, y, data, writes, skipped,
          canvas, call, ret>>

---------------------------------------------------------------------------
(* JavaScript numbers *)

Abs(i) == IF i < 0 THEN -i ELSE i

Sgn(i) == IF i < 0 THEN -1 ELSE IF i > 0 THEN 1 ELSE 0

RECURSIVE GCD(_, _)
GCD(a, b) == IF b = 0 THEN a ELSE GCD(b, a % b)

NaN == [k |-> "nan", n |-> 0, d |-> 1]

Irr == [k |-> "irr", n |-> 0, d |-> 1]

Infinity == [k |-> "inf", n |-> 1, d |-> 1]

NegInfinity == [k |-> "inf", n |-> -1, d |-> 1]

\* the rational num/den (den # 0) in lowest terms
Q(num, den) ==
    LET g == GCD(Abs(num), Abs(den))
        s == IF den < 0 THEN -1 ELSE 1
    IN [k |-> "fin", n |-> (s * num) \div g, d |-> (s * den) \div g]

Num(i) == [k |-> "fin", n |-> i, d |-> 1]

IsFin(a) == a.k = "fin"

IsZero(a) == a.k = "fin" /\ a.n = 0

\* sign of a value that is not NaN (an irrational square root is positive)
SignOf(a) == IF a.k = "irr" THEN 1 ELSE Sgn(a.n)

Neg(a) ==
    IF a.k = "fin" THEN [a EXCEPT !.n = -a.n]
    ELSE IF a.k = "inf" THEN [a EXCEPT !.n = -a.n]
    ELSE a

\* a + b
Plus(a, b) ==
    IF a.k = "nan" \/ b.k = "nan" THEN NaN
    ELSE IF a.k = "inf" /\ b.k = "inf" THEN (IF a.n = b.n THEN a ELSE NaN)
    ELSE IF a.k = "inf" THEN a
    ELSE IF b.k = "inf" THEN b
    ELSE IF a.k = "irr" \/ b.k = "irr" THEN Irr
    ELSE LET g == GCD(a.d, b.d)
         IN Q(a.n * (b.d \div g) + b.n * (a.d \div g), (a.d \div g) * b.d)

\* a - b
Minus(a, b) == Plus(a, Neg(b))

\* a * b
Times(a, b) ==
    IF a.k = "nan" \/ b.k = "nan" THEN NaN
    ELSE IF a.k = "inf" \/ b.k = "inf"
         THEN (IF IsZero(a) \/ IsZero(b) THEN NaN
               ELSE IF SignOf(a) * SignOf(b) > 0 THEN Infinity ELSE NegInfinity)
    ELSE IF IsZero(a) \/ IsZero(b) THEN Num(0)
    ELSE IF a.k = "irr" \/ b.k = "irr" THEN Irr
    ELSE LET g1 == GCD(Abs(a.n), b.d)
             g2 == GCD(Abs(b.n), a.d)
         IN Q((a.n \div g1) * (b.n \div g2), (a.d \div g2) * (b.d \div g1))

\* a / b, with JavaScript's results for a zero or infinite divisor
Over(a, b) ==
    IF a.k = "nan" \/ b.k = "nan" THEN NaN
    ELSE IF a.k = "inf" /\ b.k = "inf" THEN NaN
    ELSE IF a.k = "inf"
         THEN (IF SignOf(a) * (IF IsZero(b) THEN 1 ELSE SignOf(b)) > 0
               THEN Infinity ELSE NegInfinity)
    ELSE IF b.k = "inf" THEN Num(0)
    ELSE IF IsZero(b)
         THEN (IF IsZero(a) THEN NaN
               ELSE IF SignOf(a) > 0 THEN Infinity ELSE NegInfinity)
    ELSE IF IsZero(a) THEN Num(0)
    ELSE IF a.k = "irr" \/ b.k = "irr" THEN Irr
    ELSE LET g1 == GCD(Abs(a.n), Abs(b.n))
             g2 == GCD(a.d, b.d)
         IN Q((a.n \div g1) * (b.d \div g2), (a.d \div g2) * (b.n \div g1))

\* a < b; every comparison with NaN is false (and no comparison of the
\* inputs explored reads an irrational value)
Lt(a, b) ==
    IF a.k = "nan" \/ b.k = "nan" THEN FALSE
    ELSE IF a.k = "irr" \/ b.k = "irr" THEN FALSE
    ELSE IF a.k = "inf" THEN a.n < 0 /\ ~(b.k = "inf" /\ b.n < 0)
    ELSE IF b.k = "inf" THEN b.n > 0
    ELSE LET g == GCD(a.d, b.d)
         IN a.n * (b.d \div g) < b.n * (a.d \div g)

\* a === b on numbers
Eq(a, b) ==
    /\ a.k \in {"fin", "inf"}
    /\ b.k \in {"fin", "inf"}
    /\ a = b

Le(a, b) == Lt(a, b) \/ Eq(a, b)

Gt(a, b) == Lt(b, a)

Ge(a, b) == Le(b, a)

\* the largest r in lo..hi with r * r <= n (lo * lo <= n)
RECURSIVE Root(_, _, _)
Root(n, lo, hi) ==
    IF lo >= hi THEN lo
    ELSE LET mid == (lo + hi + 1) \div 2
         IN IF mid * mid <= n THEN Root(n, mid, hi) ELSE Root(n, lo, mid - 1)

ISqrt(n) == Root(n, 0, IF n < 46340 THEN n ELSE 46340)

IsSquare(n) == n >= 0 /\ ISqrt(n) * ISqrt(n) = n

\* Math.sqrt
Sqrt(a) ==
    IF a.k = "nan" THEN NaN
    ELSE IF a.k = "inf" THEN (IF a.n > 0 THEN Infinity ELSE NaN)
    ELSE IF a.k = "irr" THEN Irr
    ELSE IF a.n < 0 THEN NaN
    ELSE IF IsSquare(a.n) /\ IsSquare(a.d) THEN Q(ISqrt(a.n), ISqrt(a.d))
    ELSE Irr

\* Math.pow(a, s) for an integer exponent s >= 0
RECURSIVE Pow(_, _)
Pow(a, s) == IF s <= 0 THEN Num(1) ELSE Times(a, Pow(a, s - 1))

---------------------------------------------------------------------------
(* Viewport and camera *)

Vw == 1

Vh == 1

d == 1

Vec(a, b, c) == [x |-> a, y |-> b, z |-> c]

\* a vector with integer components
IVec(a, b, c) == Vec(Num(a), Num(b), Num(c))

O == IVec(0, 0, 0)

Color(r_, g_, b_) == [r |-> Num(r_), g |-> Num(g_), b |-> Num(b_)]

---------------------------------------------------------------------------
(* Vector math helpers *)

dot(a, b) == Plus(Plus(Times(a.x, b.x), Times(a.y, b.y)), Times(a.z, b.z))

subtract(a, b) == Vec(Minus(a.x, b.x), Minus(a.y, b.y), Minus(a.z, b.z))

add(a, b) == Vec(Plus(a.x, b.x), Plus(a.y, b.y), Plus(a.z, b.z))

multiply(v, scalar) ==
    Vec(Times(v.x, scalar), Times(v.y, scalar), Times(v.z, scalar))

divide(v, scalar) ==
    Vec(Over(v.x, scalar), Over(v.y, scalar), Over(v.z, scalar))

length(v) ==
    Sqrt(Plus(Plus(Times(v.x, v.x), Times(v.y, v.y)), Times(v.z, v.z)))

---------------------------------------------------------------------------
(* Canvas -> viewport projection *)

CanvasToViewport(cx, cy, cw, ch) ==
    Vec(Over(Times(cx, Num(Vw)), Num(cw)),
        Over(Times(cy, Num(Vh)), Num(ch)),
        Num(d))

---------------------------------------------------------------------------
(* Ray-sphere intersection *)

\* a variant of Quadratic whose c subtracts the radius, not its square
QuadraticUnsquared(CO, D, radius) ==
    [a |-> dot(D, D),
     b |-> Times(Num(2), dot(CO, D)),
     c |-> Minus(dot(CO, CO), radius)]

\* the coefficients a, b, c of the quadratic, from CO = O_ - sphere.center
Quadratic(CO, D, radius) ==
    [a |-> dot(D, D),
     b |-> Times(Num(2), dot(CO, D)),
     c |-> Minus(dot(CO, CO), Times(radius, radius))]

\* b * b - 4 * a * c
Discriminant(q) == Minus(Times(q.b, q.b), Times(Times(Num(4), q.a), q.c))

\* <<t1, t2>> from the square root of the discriminant
Roots(q, sqrtD) ==
    << Over(Plus(Neg(q.b), sqrtD), Times(Num(2), q.a)),
       Over(Minus(Neg(q.b), sqrtD), Times(Num(2), q.a)) >>

\* the test of the discriminant and the two returns
Solve(q, discriminant) ==
    IF Lt(discriminant, Num(0))
    THEN <<Infinity, Infinity>>
    ELSE Roots(q, Sqrt(discriminant))

SolveQuadratic(q) == Solve(q, Discriminant(q))

\* <<t1, t2>>
IntersectRaySphere(O_, D, sphere) ==
    SolveQuadratic(Quadratic(subtract(O_, sphere.center), D, sphere.radius))

---------------------------------------------------------------------------
(* Lighting *)

\* the vector L of a point or directional light at P
LightVector(light, P) ==
    IF light.type = "point" THEN subtract(light.position, P)
    ELSE light.direction

\* a variant of Diffuse without the test n_dot_l > 0
DiffuseUngated(light, P, N) ==
    Times(light.intensity,
          Over(dot(N, LightVector(light, P)),
               Times(length(N), length(LightVector(light, P)))))

\* what the diffuse branch adds to i for one light
Diffuse(light, P, N) ==
    LET L == LightVector(light, P)
        n_dot_l == dot(N, L)
    IN IF Gt(n_dot_l, Num(0))
       THEN Times(light.intensity,
                  Over(n_dot_l, Times(length(N), length(L))))
       ELSE Num(0)

\* what the specular branch adds to i for one light
Specular(light, P, N, V, s) ==
    IF s # -1
    THEN LET L == LightVector(light, P)
             R == subtract(multiply(N, Times(Num(2), dot(N, L))), L)
             r_dot_v == dot(R, V)
         IN IF Gt(r_dot_v, Num(0))
            THEN Times(light.intensity,
                       Pow(Over(r_dot_v, Times(length(R), length(V))), s))
            ELSE Num(0)
    ELSE Num(0)

\* one iteration of the loop over scene.lights: the new value of i
LightStep(i, light, P, N, V, s) ==
    IF light.type = "ambient"
    THEN Plus(i, light.intensity)
    ELSE Plus(Plus(i, Diffuse(light, P, N)), Specular(light, P, N, V, s))

RECURSIVE LightLoop(_, _, _, _, _, _, _)
LightLoop(i, lights, j, P, N, V, s) ==
    IF j > Len(lights) THEN i
    ELSE LightLoop(LightStep(i, lights[j], P, N, V, s), lights, j + 1, P, N, V, s)

ComputeLighting(P, N, V, s, lights) == LightLoop(Num(0), lights, 1, P, N, V, s)

---------------------------------------------------------------------------
(* Tracing a single ray *)

\* a variant of Closer whose last comparison is <= : a later sphere with an
\* equal root replaces the earlier one
CloserOrTied(t, t_min, t_max, closest_t) ==
    Ge(t, t_min) /\ Le(t, t_max) /\ Le(t, closest_t)

\* a variant of Closer that does not test t against t_min
CloserNoMin(t, t_min, t_max, closest_t) ==
    Le(t, t_max) /\ Lt(t, closest_t)

\* the test both roots go through: valid and closer than the closest so far
Closer(t, t_min, t_max, closest_t) ==
    Ge(t, t_min) /\ Le(t, t_max) /\ Lt(t, closest_t)

\* one of the two tests of a root: closest is
\* [t |-> closest_t, sphere |-> index of closest_sphere, 0 for null]
Keep(closest, t, i, t_min, t_max) ==
    IF Closer(t, t_min, t_max, closest.t)
    THEN [t |-> t, sphere |-> i]
    ELSE closest

\* the two tests in their order: t1, then t2
KeepBoth(closest, ts, i, t_min, t_max) ==
    Keep(Keep(closest, ts[1], i, t_min, t_max), ts[2], i, t_min, t_max)

\* one iteration of the loop over scene.spheres
SphereStep(closest, i, O_, D, t_min, t_max, spheres) ==
    KeepBoth(closest, IntersectRaySphere(O_, D, spheres[i]), i, t_min, t_max)

RECURSIVE SphereLoop(_, _, _, _, _, _, _)
SphereLoop(closest, i, O_, D, t_min, t_max, spheres) ==
    IF i > Len(spheres) THEN closest
    ELSE SphereLoop(SphereStep(closest, i, O_, D, t_min, t_max, spheres),
                    i + 1, O_, D, t_min, t_max, spheres)

ClosestIntersection(O_, D, t_min, t_max, spheres) ==
    SphereLoop([t |-> Infinity, sphere |-> 0], 1, O_, D, t_min, t_max, spheres)

\* a variant of Shade that returns the sphere's colour as it is, as the
\* unlit TraceRay does
ShadeUnlit(color, lighting) == color

\* the colour returned for a hit, scaled by the lighting
Shade(color, lighting) ==
    [r |-> Times(color.r, lighting),
     g |-> Times(color.g, lighting),
     b |-> Times(color.b, lighting)]

\* the locals of TraceRay when it returns a lit colour
TraceRayShaded(closest, closest_sphere, P, N, divisor, lighting) ==
    [closest_sphere |-> closest.sphere, closest_t |-> closest.t,
     P |-> P, N |-> N, divisor |-> divisor, lighting |-> lighting,
     color |-> Shade(closest_sphere.color, lighting)]

\* V, and the call of ComputeLighting
TraceRayLighting(closest, closest_sphere, P, N, divisor, D, sc) ==
    TraceRayShaded(closest, closest_sphere, P, N, divisor,
                   ComputeLighting(P, N, multiply(D, Num(-1)),
                                   closest_sphere.specular, sc.lights))

\* N = divide(N, length(N)), N0 being subtract(P, closest_sphere.center)
TraceRayNormal(closest, closest_sphere, P, N0, D, sc) ==
    TraceRayLighting(closest, closest_sphere, P, divide(N0, length(N0)),
                     length(N0), D, sc)

\* from the intersection point P on
TraceRayHit(closest, closest_sphere, P, D, sc) ==
    TraceRayNormal(closest, closest_sphere, P,
                   subtract(P, closest_sphere.center), D, sc)

\* after the loop: the test of closest_sphere, and the rest of the function
TraceRayAfterLoop(closest, O_, D, sc, bg) ==
    IF closest.sphere = 0
    THEN [closest_sphere |-> 0, closest_t |-> closest.t,
          P |-> O, N |-> O, divisor |-> Num(1), lighting |-> Num(0),
          color |-> bg]
    ELSE TraceRayHit(closest, sc.spheres[closest.sphere],
                     add(O_, multiply(D, closest.t)), D, sc)

\* the locals of TraceRay when it returns, and the value returned (color)
TraceRayLocals(O_, D, t_min, t_max, sc, bg) ==
    TraceRayAfterLoop(ClosestIntersection(O_, D, t_min, t_max, sc.spheres),
                      O_, D, sc, bg)

TraceRay(O_, D, t_min, t_max, sc, bg) ==
    TraceRayLocals(O_, D, t_min, t_max, sc, bg).color

\* the return of TraceRay in src/unnamed/part_000: no lighting
ColorOrBackground(closest, sc, bg) ==
    IF closest.sphere # 0 THEN sc.spheres[closest.sphere].color ELSE bg

\* TraceRay of src/unnamed/part_000
TraceRayUnlit(O_, D, t_min, t_max, sc, bg) ==
    ColorOrBackground(ClosestIntersection(O_, D, t_min, t_max, sc.spheres),
                      sc, bg)

---------------------------------------------------------------------------
(* Putting a pixel into the canvas buffer *)

\* a variant of ToUint8Clamp that rounds to the nearest integer and does not
\* clamp
ToUint8NoClamp(v) ==
    IF v.k # "fin" THEN 0
    ELSE (2 * v.n + v.d) \div (2 * v.d)

\* What a store into imgData.data keeps.  imgData is what ctx.getImageData
\* returned: its data is a Uint8ClampedArray, and a store into one converts
\* the number: NaN to 0, clamped to [0, 255], rounded to the nearest integer,
\* a tie to the even one.
ToUint8Clamp(v) ==
    IF v.k = "nan" THEN 0
    ELSE IF v.k = "inf" THEN (IF v.n > 0 THEN 255 ELSE 0)
    ELSE IF v.k = "irr" THEN 0
    ELSE IF v.n <= 0 THEN 0
    ELSE IF v.n >= 255 * v.d THEN 255
    ELSE LET f == v.n \div v.d
             twice == 2 * (v.n - f * v.d)
         IN IF twice < v.d THEN f
            ELSE IF twice > v.d THEN f + 1
            ELSE IF f % 2 = 0 THEN f ELSE f + 1

\* px
RasterX(cx, cw) == Plus(Over(Num(cw), Num(2)), cx)

\* a variant of RasterY that does not invert the y axis
RasterYUnflipped(cy, ch) == Plus(Over(Num(ch), Num(2)), cy)

\* py
RasterY(cy, ch) == Minus(Over(Num(ch), Num(2)), cy)

\* the "stay inside the canvas" test
OutOfCanvas(px, py, cw, ch) ==
    Lt(px, Num(0)) \/ Ge(px, Num(cw)) \/ Lt(py, Num(0)) \/ Ge(py, Num(ch))

\* index inside the pixel buffer
BufferIndex(px, py, cw) == Times(Plus(px, Times(py, Num(cw))), Num(4))

\* buf with value stored at the (numeric) property key: a typed array
\* ignores a key that is not one of its integer indices
Store(buf, key, value) ==
    IF key.k = "fin" /\ key.d = 1 /\ key.n \in DOMAIN buf
    THEN [buf EXCEPT ![key.n] = ToUint8Clamp(value)]
    ELSE buf

PutPixel(cx, cy, color) ==
    LET px == RasterX(cx, Cw)
        py == RasterY(cy, Ch)
        index == BufferIndex(px, py, Cw)
    IN IF OutOfCanvas(px, py, Cw, Ch)
       THEN /\ skipped' = skipped \cup {<<cx, cy>>}
            /\ UNCHANGED <<data, writes>>
       ELSE /\ data' = Store(Store(Store(Store(data,
                           index, color.r),
                           Plus(index, Num(1)), color.g),
                           Plus(index, Num(2)), color.b),
                           Plus(index, Num(3)), Num(255))
            /\ writes' = Append(writes, [x |-> cx, y |-> cy, px |-> px,
                                         py |-> py, index |-> index,
                                         color |-> color])
            /\ UNCHANGED skipped

---------------------------------------------------------------------------
(* Scenes *)

Sphere(c, r_, col, s) ==
    [center |-> c, radius |-> Num(r_), color |-> col, specular |-> s]

Ambient(i) ==
    [type |-> "ambient", intensity |-> i, position |-> O, direction |-> O]

Point(i, p) ==
    [type |-> "point", intensity |-> i, position |-> p, direction |-> O]

Directional(i, dir) ==
    [type |-> "directional", intensity |-> i, position |-> O, direction |-> dir]

Black == Color(0, 0, 0)

White == Color(255, 255, 255)

\* the two configured values of BACKGROUND_COLOR
Backgrounds == {Black, White}

\* sequences over S of length at most n
SeqUpTo(S, n) == UNION {[1..m -> S] : m \in 0..n}

---------------------------------------------------------------------------
(* Exactness of the arithmetic on an input *)

\* no square root TraceRay takes on this ray is irrational
ExactLocals(l) == l.lighting.k # "irr" /\ l.divisor.k # "irr"

ExactTrace(O_, D, t_min, t_max, sc, bg) ==
    /\ \A i \in 1..Len(sc.spheres) :
          Sqrt(Discriminant(Quadratic(subtract(O_, sc.spheres[i].center), D,
                                      sc.spheres[i].radius))).k # "irr"
    /\ ExactLocals(TraceRayLocals(O_, D, t_min, t_max, sc, bg))

\* the centered coordinates render's loop visits along an axis of size n
LoopRange(n) == {Minus(Num(i), Over(Num(n), Num(2))) : i \in 0..(n - 1)}

ExactRender(cw, ch, sc, bg) ==
    \A cx \in LoopRange(cw), cy \in LoopRange(ch) :
        ExactTrace(O, CanvasToViewport(cx, cy, cw, ch), Num(1), Infinity, sc, bg)

---------------------------------------------------------------------------
(* The render pass *)

MaxCanvas == 4

Red == Color(255, 0, 0)

Blue == Color(0, 0, 255)

Green == Color(0, 255, 0)

Yellow == Color(255, 255, 0)

Orange == Color(255, 128, 1)

\* the first three spheres of the source's scene
SourceSpheres ==
    << Sphere(IVec(0, -1, 3), 1, Red, 500),
       Sphere(IVec(2, 0, 4), 1, Blue, 500),
       Sphere(IVec(-2, 0, 4), 1, Green, 10) >>

\* a sphere through the camera that fills the whole view
Dome(col, s) == Sphere(IVec(0, 0, 2), 2, col, s)

RenderScenes ==
    { [spheres |-> <<>>, lights |-> <<Ambient(Num(1))>>],
      [spheres |-> SourceSpheres, lights |-> <<Ambient(Q(1, 5))>>],
      [spheres |-> <<Sphere(IVec(0, 0, 4), 1, Red, -1)>>,
       lights |-> <<Ambient(Num(1))>>],
      [spheres |-> <<Dome(Orange, -1)>>, lights |-> <<Ambient(Q(1, 2))>>],
      [spheres |-> <<Dome(Orange, -1)>>, lights |-> <<Ambient(Num(2))>>],
      [spheres |-> <<Dome(Orange, -1)>>, lights |-> <<Ambient(Q(-1, 2))>>],
      [spheres |-> <<Dome(Yellow, -1), Sphere(IVec(0, 0, 3), 1, Blue, 2)>>,
       lights |-> <<Ambient(Q(1, 5)), Directional(Q(4, 5), IVec(0, 0, 1)),
                    Point(Q(3, 5), IVec(0, 0, 0))>>],
      [spheres |-> <<Sphere(IVec(0, 0, 3), 0, Green, 1)>>,
       lights |-> <<Ambient(Q(1, 5)), Directional(Q(1, 5), IVec(1, 4, 4))>>] }

Init ==
    /\ Cw \in 1..MaxCanvas
    /\ Ch \in 1..MaxCanvas
    /\ scene \in RenderScenes
    /\ BACKGROUND_COLOR \in Backgrounds
    /\ ExactRender(Cw, Ch, scene, BACKGROUND_COLOR)
    /\ pc = "render"
    /\ x = Neg(Over(Num(Cw), Num(2)))
    /\ y = Neg(Over(Num(Ch), Num(2)))
    /\ data = [i \in 0..(Cw * Ch * 4 - 1) |-> 0]
    /\ writes = <<>>
    /\ skipped = {}
    /\ canvas = <<>>
    /\ call = <<>>
    /\ ret = <<>>

\* the body of the inner loop, and its y++
RenderPixel ==
    /\ pc = "render"
    /\ Lt(x, Over(Num(Cw), Num(2)))
    /\ Lt(y, Over(Num(Ch), Num(2)))
    /\ LET D == CanvasToViewport(x, y, Cw, Ch)
           color == TraceRay(O, D, Num(1), Infinity, scene, BACKGROUND_COLOR)
       IN PutPixel(x, y, color)
    /\ y' = Plus(y, Num(1))
    /\ UNCHANGED <<Cw, Ch, scene, BACKGROUND_COLOR, pc, x, canvas, call, ret>>

\* the inner loop ends: x++, and the inner loop starts again
RenderNextColumn ==
    /\ pc = "render"
    /\ Lt(x, Over(Num(Cw), Num(2)))
    /\ ~Lt(y, Over(Num(Ch), Num(2)))
    /\ x' = Plus(x, Num(1))
    /\ y' = Neg(Over(Num(Ch), Num(2)))
    /\ UNCHANGED <<Cw, Ch, scene, BACKGROUND_COLOR, pc, data, writes, skipped,
                   canvas, call, ret>>

\* the outer loop ends: ctx.putImageData(imgData, 0, 0)
RenderPutImageData ==
    /\ pc = "render"
    /\ ~Lt(x, Over(Num(Cw), Num(2)))
    /\ canvas' = data
    /\ pc' = "done"
    /\ UNCHANGED <<Cw, Ch, scene, BACKGROUND_COLOR, x, y, data, writes,
                   skipped, call, ret>>

Next == RenderPixel \/ RenderNextColumn \/ RenderPutImageData

Spec == Init /\ [][Next]_vars

---------------------------------------------------------------------------
(* One call of TraceRay, on rays and scenes drawn from bounded sets *)

MaxSpheres == 2

Magenta == Color(255, 0, 255)

\* spheres on the z axis; on the ray from the camera along +z their roots are
\* 3 and 5, 3 and 9, 1 and 3, the double root 5 (radius 0), 2 and 4 (negative
\* radius)
SpherePool ==
    { Sphere(IVec(0, 0, 4), 1, Red, -1),
      Sphere(IVec(0, 0, 6), 3, Blue, 2),
      Sphere(IVec(0, 0, 2), 1, Green, -1),
      Sphere(IVec(0, 0, 5), 0, Yellow, 1),
      Sphere(IVec(0, 0, 3), -1, Magenta, -1) }

\* <<origin, direction>>
Rays ==
    { <<O, IVec(0, 0, 1)>>,
      <<O, IVec(0, 0, 2)>>,
      <<O, IVec(1, 0, 0)>>,
      <<O, IVec(0, 0, -1)>>,
      <<IVec(0, 0, 8), IVec(0, 0, -1)>> }

\* <<t_min, t_max>>, t_min <= t_max
Windows ==
    { <<Num(1), Infinity>>,
      <<Num(4), Infinity>>,
      <<Num(1), Num(4)>>,
      <<Num(3), Num(3)>> }

LightLists ==
    { <<Ambient(Num(1))>>,
      <<Ambient(Q(1, 5)), Ambient(Q(3, 10))>>,
      <<Ambient(Q(1, 5)), Point(Q(3, 5), IVec(0, 0, 0)),
        Directional(Q(1, 5), IVec(0, 0, -1))>> }

InitTrace ==
    /\ scene \in [spheres : SeqUpTo(SpherePool, MaxSpheres), lights : LightLists]
    /\ BACKGROUND_COLOR \in Backgrounds
    /\ call \in {[O |-> r[1], D |-> r[2], t_min |-> w[1], t_max |-> w[2]] :
                    r \in Rays, w \in Windows}
    /\ ExactTrace(call.O, call.D, call.t_min, call.t_max, scene,
                  BACKGROUND_COLOR)
    /\ pc = "call"
    /\ ret = <<>>
    /\ Cw = 0
    /\ Ch = 0
    /\ x = Num(0)
    /\ y = Num(0)
    /\ data = <<>>
    /\ writes = <<>>
    /\ skipped = {}
    /\ canvas = <<>>

TraceRayCall ==
    /\ pc = "call"
    /\ ret' = TraceRayLocals(call.O, call.D, call.t_min, call.t_max, scene,
                             BACKGROUND_COLOR)
    /\ pc' = "returned"
    /\ UNCHANGED <<Cw, Ch, scene, BACKGROUND_COLOR, x, y, data, writes,
                   skipped, canvas, call>>

NextTrace == TraceRayCall

SpecTrace == InitTrace /\ [][NextTrace]_vars

---------------------------------------------------------------------------
(* One call of ComputeLighting *)

MaxLights == 2

LightPool ==
    { Ambient(Q(1, 5)),
      Ambient(Num(1)),
      Point(Q(3, 5), IVec(0, 0, 4)),
      Point(Num(1), IVec(0, 3, -4)),
      Point(Q(1, 2), IVec(0, 0, 9)),
      Directional(Q(1, 5), IVec(0, 0, 1)),
      Directional(Q(1, 2), IVec(0, -3, -4)) }

Points == {IVec(0, 0, 0), IVec(0, 0, 3)}

Normals == {IVec(0, 0, 1), IVec(0, 0, -1), IVec(0, 1, 0), IVec(0, 0, 2)}

Views == {IVec(0, 0, 1), IVec(0, 0, -1), IVec(0, 3, 4)}

Speculars == {-1, 1, 2}

InitLight ==
    /\ scene \in [spheres : {<<>>}, lights : SeqUpTo(LightPool, MaxLights)]
    /\ call \in [P : Points, N : Normals, V : Views, s : Speculars]
    /\ ComputeLighting(call.P, call.N, call.V, call.s, scene.lights).k # "irr"
    /\ BACKGROUND_COLOR = Black
    /\ pc = "call"
    /\ ret = <<>>
    /\ Cw = 0
    /\ Ch = 0
    /\ x = Num(0)
    /\ y = Num(0)
    /\ data = <<>>
    /\ writes = <<>>
    /\ skipped = {}
    /\ canvas = <<>>

ComputeLightingCall ==
    /\ pc = "call"
    /\ ret' = ComputeLighting(call.P, call.N, call.V, call.s, scene.lights)
    /\ pc' = "returned"
    /\ UNCHANGED <<Cw, Ch, scene, BACKGROUND_COLOR, x, y, data, writes,
                   skipped, canvas, call>>

NextLight == ComputeLightingCall

SpecLight == InitLight /\ [][NextLight]_vars

---------------------------------------------------------------------------
(* Closest-hit selection *)

\* the roots of sphere i on the ray of the call that lie in [t_min, t_max];
\* the Infinity that IntersectRaySphere returns for "no intersection" is no
\* root
ValidRoots(i) ==
    {t \in {IntersectRaySphere(call.O, call.D, scene.spheres[i])[1],
            IntersectRaySphere(call.O, call.D, scene.spheres[i])[2]} :
        IsFin(t) /\ Ge(t, call.t_min) /\ Le(t, call.t_max)}

\* the spheres of the scene with a root in [t_min, t_max]
HitSpheres == {i \in 1..Len(scene.spheres) : ValidRoots(i) # {}}

\* what the unlit TraceRay of part_000 returns on the call
UnlitColor ==
    TraceRayUnlit(call.O, call.D, call.t_min, call.t_max, scene,
                  BACKGROUND_COLOR)

\* C1: TraceRay selects the sphere that owns the smallest root in
\* [t_min, t_max] over both roots of every sphere; no root outside the window
\* is selected; of two spheres with the same smallest root the first in the
\* scene list is selected (and the unlit TraceRay returns its colour).
C1_ClosestHit ==
    pc = "returned" =>
        IF HitSpheres = {}
        THEN ret.closest_sphere = 0
        ELSE /\ ret.closest_sphere \in HitSpheres
             /\ ret.closest_t \in ValidRoots(ret.closest_sphere)
             /\ \A j \in HitSpheres : \A t \in ValidRoots(j) :
                    /\ Le(ret.closest_t, t)
                    /\ j < ret.closest_sphere => Lt(ret.closest_t, t)
             /\ UnlitColor = scene.spheres[ret.closest_sphere].color

\* two spheres own the smallest valid root, the first is selected, and the
\* later one has a smaller root that lies outside the window
C1_Witness ==
    /\ pc = "returned"
    /\ ret.closest_sphere = 1
    /\ Len(scene.spheres) = 2
    /\ ret.closest_t \in ValidRoots(2)
    /\ \E t \in {IntersectRaySphere(call.O, call.D, scene.spheres[2])[2]} :
          Lt(t, call.t_min) /\ Lt(t, ret.closest_t)

\* C2: when no sphere has a root in [t_min, t_max], TraceRay returns exactly
\* BACKGROUND_COLOR, whatever the spheres and lights of the scene.
C2_Background ==
    (pc = "returned" /\ HitSpheres = {}) =>
        /\ ret.color = BACKGROUND_COLOR
        /\ UnlitColor = BACKGROUND_COLOR

\* a miss in a scene that has spheres with real roots outside the window and
\* lights that would scale a colour
C2_Witness ==
    /\ pc = "returned"
    /\ HitSpheres = {}
    /\ Len(scene.spheres) = 2
    /\ Len(scene.lights) = 3
    /\ BACKGROUND_COLOR = White
    /\ ret.color = White
    /\ \E i \in 1..2 :
          IntersectRaySphere(call.O, call.D, scene.spheres[i])[1].k = "fin"

---------------------------------------------------------------------------
(* Ambient light *)

AllAmbient(lights) == \A j \in 1..Len(lights) : lights[j].type = "ambient"

\* the total intensity of the lights of a list
RECURSIVE TotalIntensity(_)
TotalIntensity(lights) ==
    IF lights = <<>> THEN Num(0)
    ELSE Plus(Head(lights).intensity, TotalIntensity(Tail(lights)))

\* the scene of the end-to-end scenario
EndToEndScene ==
    [spheres |-> <<Sphere(IVec(0, 0, 4), 1, Red, -1)>>,
     lights |-> <<Ambient(Num(1))>>]

\* C5: with ambient lights only, of total intensity k, ComputeLighting
\* returns exactly k for any P, N, V and specular exponent, and a ray that
\* hits a sphere returns the sphere's colour times k on each channel; in the
\* end-to-end scenario the ray along (0,0,1) returns (255,0,0) and the ray
\* along (1,0,0) the black background.
C5_AmbientOnly ==
    (pc = "returned" /\ AllAmbient(scene.lights)) =>
        /\ \A P \in Points, N \in Normals, V \in Views, s \in Speculars :
              ComputeLighting(P, N, V, s, scene.lights)
                  = TotalIntensity(scene.lights)
        /\ ret.closest_sphere # 0 =>
              /\ ret.lighting = TotalIntensity(scene.lights)
              /\ ret.color.r = Times(scene.spheres[ret.closest_sphere].color.r,
                                     TotalIntensity(scene.lights))
              /\ ret.color.g = Times(scene.spheres[ret.closest_sphere].color.g,
                                     TotalIntensity(scene.lights))
              /\ ret.color.b = Times(scene.spheres[ret.closest_sphere].color.b,
                                     TotalIntensity(scene.lights))
        /\ ( /\ scene = EndToEndScene
             /\ BACKGROUND_COLOR = Black
             /\ call.O = O
             /\ call.t_min = Num(1)
             /\ call.t_max = Infinity ) =>
              /\ call.D = IVec(0, 0, 1) => ret.color = Red
              /\ call.D = IVec(1, 0, 0) => ret.color = Black

\* a hit under two ambient lights of total intensity 1/2: the green sphere's
\* colour comes back halved
C5_Witness ==
    /\ pc = "returned"
    /\ AllAmbient(scene.lights)
    /\ TotalIntensity(scene.lights) = Q(1, 2)
    /\ ret.closest_sphere # 0
    /\ scene.spheres[ret.closest_sphere].color = Green
    /\ ret.color = [r |-> Num(0), g |-> Q(255, 2), b |-> Num(0)]

---------------------------------------------------------------------------
(* Spheres of radius zero or less *)

\* C9 as stated: a sphere whose radius is zero or negative has no candidate
\* root and is never selected as closest_sphere.
C9_NonPositiveRadiusMisses ==
    pc = "returned" =>
        \A i \in 1..Len(scene.spheres) :
            Le(scene.spheres[i].radius, Num(0)) =>
                ValidRoots(i) = {} /\ ret.closest_sphere # i

\* the sphere with the radius negated
Mirrored(sphere) == [sphere EXCEPT !.radius = Neg(sphere.radius)]

\* C9 amended: a sphere of radius zero is a candidate only where the ray
\* passes exactly through its centre (the hit point is the centre), and a
\* sphere of negative radius has exactly the roots of the sphere of radius
\* |radius|.
C9_NonPositiveRadius ==
    pc = "returned" =>
        \A i \in 1..Len(scene.spheres) :
            Le(scene.spheres[i].radius, Num(0)) =>
                /\ IntersectRaySphere(call.O, call.D, scene.spheres[i])
                     = IntersectRaySphere(call.O, call.D,
                                          Mirrored(scene.spheres[i]))
                /\ IsZero(scene.spheres[i].radius) =>
                     /\ \A t \in ValidRoots(i) :
                           add(call.O, multiply(call.D, t))
                               = scene.spheres[i].center
                     /\ ret.closest_sphere = i =>
                           ret.P = scene.spheres[i].center

\* the sphere of radius zero is selected at its centre, ahead of a sphere of
\* negative radius that has candidate roots too
C9_Witness ==
    /\ pc = "returned"
    /\ Len(scene.spheres) = 2
    /\ ret.closest_sphere = 1
    /\ IsZero(scene.spheres[1].radius)
    /\ ret.P = scene.spheres[1].center
    /\ Lt(scene.spheres[2].radius, Num(0))
    /\ ValidRoots(2) # {}

---------------------------------------------------------------------------
(* Normalising the surface normal *)

\* C10: whenever a closest sphere is found, the length TraceRay divides
\* P - closest_sphere.center by is not zero, and the normal is finite.
C10_NormalDefined ==
    (pc = "returned" /\ ret.closest_sphere # 0) =>
        /\ ~IsZero(ret.divisor)
        /\ IsFin(ret.N.x) /\ IsFin(ret.N.y) /\ IsFin(ret.N.z)

---------------------------------------------------------------------------
(* Diffuse sign gating *)

\* the list without its j-th light
DropLight(lights, j) ==
    [m \in 1..(Len(lights) - 1) |-> IF m < j THEN lights[m] ELSE lights[m + 1]]

\* light j of the scene faces away from the surface of the call: it is a
\* point or directional light with dot(N, L) <= 0
FacesAway(j) ==
    /\ scene.lights[j].type # "ambient"
    /\ Le(dot(call.N, LightVector(scene.lights[j], call.P)), Num(0))

\* C6: a point or directional light with dot(N, L) <= 0 contributes a
\* diffuse term of exactly 0 at any distance, and with the specular exponent
\* -1 it adds nothing to the intensity ComputeLighting returns.
C6_DiffuseGate ==
    pc = "returned" =>
        \A j \in 1..Len(scene.lights) :
            FacesAway(j) =>
                /\ Diffuse(scene.lights[j], call.P, call.N) = Num(0)
                /\ call.s = -1 =>
                      ret = ComputeLighting(call.P, call.N, call.V, call.s,
                                            DropLight(scene.lights, j))

\* two point lights at different distances behind the surface, on a surface
\* without specular reflection: nothing is returned
C6_Witness ==
    /\ pc = "returned"
    /\ call.s = -1
    /\ Len(scene.lights) = 2
    /\ scene.lights[1].type = "point"
    /\ scene.lights[2].type = "point"
    /\ scene.lights[1].position # scene.lights[2].position
    /\ FacesAway(1)
    /\ FacesAway(2)
    /\ Lt(dot(call.N, LightVector(scene.lights[1], call.P)), Num(0))
    /\ ret = Num(0)

---------------------------------------------------------------------------
(* The raster *)

\* the stores PutPixel has performed
Written == {writes[k] : k \in 1..Len(writes)}

\* C3 as stated: during a render the bounds guard of PutPixel never skips a
\* pixel: every (x, y) the loop visits maps to 0 <= px < Cw, 0 <= py < Ch.
C3_NoPixelSkipped == skipped = {}

\* C4: PutPixel writes centered (x, y) at px = Cw/2 + x, py = Ch/2 - y:
\* centered (0, 0) lands on raster pixel (Cw/2, Ch/2), and a larger centered
\* y always lands on a smaller raster row.
C4_RasterMapping ==
    /\ \A w \in Written :
          /\ w.px = Plus(Over(Num(Cw), Num(2)), w.x)
          /\ w.py = Minus(Over(Num(Ch), Num(2)), w.y)
          /\ w.index = Times(Num(4), Plus(w.px, Times(Num(Cw), w.py)))
          /\ (w.x = Num(0) /\ w.y = Num(0)) =>
                /\ w.px = Q(Cw, 2)
                /\ w.py = Q(Ch, 2)
                /\ w.index = Num(4 * ((Cw \div 2) + (Ch \div 2) * Cw))
    /\ \A v, w \in Written : Gt(v.y, w.y) => Lt(v.py, w.py)

\* the render has written centered (0, 0), and (0, 1) on the row above it and
\* (0, -1) on the row below
C4_Witness ==
    /\ pc = "done"
    /\ \E o, u, l \in Written :
          /\ o.x = Num(0) /\ o.y = Num(0)
          /\ u.x = Num(0) /\ u.y = Num(1)
          /\ l.x = Num(0) /\ l.y = Num(-1)
          /\ u.py = Minus(o.py, Num(1))
          /\ l.py = Plus(o.py, Num(1))

\* C7: every byte of the output buffer is an integer in [0, 255], whatever
\* the lighting made of the colour, and the alpha of every written pixel is
\* 255.
C7_ChannelRange ==
    /\ \A i \in DOMAIN data : data[i] \in 0..255
    /\ \A i \in DOMAIN canvas : canvas[i] \in 0..255
    /\ \A w \in Written : data[w.index.n + 3] = 255

\* a pixel whose red channel the lighting raised above 255 has been stored,
\* and copied to the canvas, as 255 with alpha 255
C7_Witness ==
    /\ pc = "done"
    /\ \E w \in Written :
          /\ Gt(w.color.r, Num(255))
          /\ data[w.index.n] = 255
          /\ canvas[w.index.n] = 255
          /\ data[w.index.n + 3] = 255

\* C8 as stated: when render has completed, every pixel of the Cw x Ch
\* raster has been written exactly once.
C8_EveryPixelOnce ==
    pc = "done" =>
        \A px \in 0..(Cw - 1), py \in 0..(Ch - 1) :
            Cardinality({k \in 1..Len(writes) :
                            writes[k].px = Num(px) /\ writes[k].py = Num(py)})
                = 1

=============================================================================
